---- MODULE Spec2Model ----
(***************************************************************************)
(* BreagleBT (homeassistant/components/breagle/cover.py): the BLE lift     *)
(* entity.  One controller, its connection handle, the availability flag,  *)
(* the believed position, the transport's sessions and the coroutines of   *)
(* the entity that are in flight.  A coroutine runs atomically from one    *)
(* transport await (client.disconnect, establish_connection,               *)
(* write_gatt_char) to the next; the transport's answers, link drops and   *)
(* the delivery of disconnect callbacks are chosen nondeterministically.   *)
(***************************************************************************)
EXTENDS Integers, Sequences, FiniteSets, TLC

VARIABLES
    client,      \* self._client: NoClient (None) or the session id of the BleakClient
    available,   \* self._available: "None", "True" or "False"
    is_closed,   \* self._is_closed: "None", "True" or "False"
    live,        \* transport: sessions that are connected (client.is_connected)
    pendingCb,   \* transport: disconnected_callback invocations still to be delivered
    published,   \* host: the last snapshot written by async_write_ha_state
    task,        \* the coroutines of the entity, one record per slot
    calls,       \* number of entry points invoked so far
    overlap,     \* host: whether an entry point may start while another is suspended
    ble_name,    \* self._ble_device.name, a sequence of characters
    model,       \* self._model
    stable,      \* transport: from now on every connection attempt succeeds and no link drops
    lastCb,      \* observation: the diconnected_cb that ran in the step just taken, if one did
    lastDone,    \* observation: the entry point that finished last
    lastLink     \* observation: the latest of: a connection attempt finished ("ok",
                 \* "failed"), a disconnect callback or disconnect() ran ("cut")

vars == <<client, available, is_closed, live, pendingCb, published, task, calls, overlap,
          ble_name, model, stable, lastCb, lastDone, lastLink>>

\* ---------------------------------------------------------------- bounds
MaxCalls == 3
NumTasks == 2
MaxName == 6
MaxPending == 1
MaxLive == 2

\* ------------------------------------------------------------- constants
NoClient == 0

\* connect(), line 120: max_attempts=4.
max_attempts == 4

Tasks == 1..NumTasks

\* const.py, lines 10-11.
MODEL_TVLIFT == "Breagle"
MODEL_UNKNOWN == "Unknown"

\* The literal of model_from_name, "limoss".
LIMOSS == <<"l", "i", "m", "o", "s", "s">>

\* str.startswith.
startswith(s, prefix) ==
    /\ Len(s) >= Len(prefix)
    /\ SubSeq(s, 1, Len(prefix)) = prefix

\* model_from_name testing for the prefix "limos".
model_from_name_short(name) ==
    IF startswith(name, SubSeq(LIMOSS, 1, 5)) THEN MODEL_TVLIFT ELSE MODEL_UNKNOWN

\* model_from_name, lines 43-47.
model_from_name(name) ==
    IF startswith(name, LIMOSS) THEN MODEL_TVLIFT ELSE MODEL_UNKNOWN

\* Advertised names: the lift of the scenarios, and another device.
LiftName == <<"l","i","m","o","s","s","-","l","i","f","t","-","1">>
OtherName == <<"o","t","h","e","r","-","d","e","v","i","c","e">>

\* bytes.fromhex: two hexadecimal digits per byte.
HexVal(c) ==
    CASE c = "0" -> 0  [] c = "1" -> 1  [] c = "2" -> 2  [] c = "3" -> 3
      [] c = "4" -> 4  [] c = "5" -> 5  [] c = "6" -> 6  [] c = "7" -> 7
      [] c = "8" -> 8  [] c = "9" -> 9  [] c = "A" -> 10 [] c = "B" -> 11
      [] c = "C" -> 12 [] c = "D" -> 13 [] c = "E" -> 14 [] c = "F" -> 15

fromhex(s) == [i \in 1..(Len(s) \div 2) |-> 16 * HexVal(s[2 * i - 1]) + HexVal(s[2 * i])]

\* The literal of async_close_cover, "DDA212A0446A3DBFC7A2".
CLOSE_HEX == <<"D","D","A","2","1","2","A","0","4","4","6","A","3","D","B","F","C","7","A","2">>

\* The literal of async_open_cover, "DD29CCEA3FEE319C540A".
OPEN_HEX == <<"D","D","2","9","C","C","E","A","3","F","E","E","3","1","9","C","5","4","0","A">>

\* Both entry points sending the close literal.
bits_same(op) == fromhex(CLOSE_HEX)

\* The bits a command entry point hands to send_cmd.
bits(op) == IF op = "close" THEN fromhex(CLOSE_HEX) ELSE fromhex(OPEN_HEX)

\* ------------------------------------------------------------ observation
\* What a coroutine did: one event per call it made and per answer it got.
Ev(e, h) == [e |-> e, h |-> h, bits |-> <<>>]
WriteEv(h, b) == [e |-> "write", h |-> h, bits |-> b]

\* The payloads of the write_gatt_char calls among the events of a coroutine.
Writes(tr) ==
    LET w == SelectSeq(tr, LAMBDA e : e.e = "write")
    IN  [i \in 1..Len(w) |-> w[i].bits]

Snap(a, c, h) == [available |-> a, is_closed |-> c, client |-> h]

Here == Snap(available, is_closed, client)

NoCb == [fired |-> FALSE, pre |-> Snap("None", "None", NoClient),
         post |-> Snap("None", "None", NoClient), pubs |-> 0]

NoDone == [op |-> "-", res |-> "-", writes |-> <<>>]

\* A slot: the entry point op, where it is suspended (pc), the handle its await
\* is on (h), the attempts establish_connection has failed so far (att), how it
\* ended (res) and what send_cmd returned (sent); and what is
\* observed of it: the controller when it started (st), its events (tr), its
\* async_write_ha_state calls (pubs), the callbacks that ran meanwhile (cbs) and
\* the entry point that finished right before it started (prev).  A finished
\* coroutine stays in its slot for one state and is gone with the next step.
IdleTask ==
    [op |-> "-", pc |-> "idle", h |-> NoClient, att |-> 0, res |-> "-", sent |-> "-",
     pubs |-> 0, cbs |-> 0, tr |-> <<>>,
     st |-> Snap("None", "None", NoClient), prev |-> NoDone]

InFlight(t) == task[t].pc \notin {"idle", "done"}

Retire(r) == IF r.pc = "done" THEN IdleTask ELSE r

\* ------------------------------------------------------------------- Init
\* BreagleBT.__init__, lines 70-79.
Controller ==
    /\ client = NoClient
    /\ available = "None"
    /\ is_closed = "None"
    /\ live = {}
    /\ pendingCb = 0
    /\ published = [available |-> "-", is_closed |-> "-"]
    /\ task = [t \in Tasks |-> IdleTask]
    /\ calls = 0
    /\ lastCb = NoCb
    /\ lastDone = NoDone
    /\ lastLink = "none"
    /\ stable = FALSE

\* The controller of the lift named "limoss-lift-1".
Fresh ==
    /\ Controller
    /\ ble_name = LiftName
    /\ model = model_from_name(ble_name)

Init == Fresh /\ overlap = FALSE

ConcInit == Fresh /\ overlap = TRUE

\* async_write_ha_state: the host reads the entity's properties.
Written(a, c) == [available |-> a, is_closed |-> c]

\* ------------------------------------------------- the code, await to await
\* A coroutine returns None / raises.
Return(r) == [r EXCEPT !.pc = "done", !.res = "None"]
Raise(r, exc) == [r EXCEPT !.pc = "done", !.res = exc]

\* disconnect() without its `if self._client is None: return`: the lookup of
\* disconnect on None raises.
disconnect_unguarded(r, c, at, ret) ==
    IF c = NoClient
        THEN Raise(r, "AttributeError")
        ELSE [r EXCEPT !.pc = at, !.h = c, !.tr = Append(@, Ev("teardown", c))]

\* disconnect(), lines 131-136: return when there is no handle, else start
\* client.disconnect() on the handle and suspend at `at`; `ret` is the caller's
\* record when disconnect() returns at once.
disconnect(r, c, at, ret) ==
    IF c = NoClient
        THEN ret
        ELSE [r EXCEPT !.pc = at, !.h = c, !.tr = Append(@, Ev("teardown", c))]

\* connect(), line 115: start establish_connection and suspend.
establish_connection(r) ==
    [r EXCEPT !.pc = "est", !.h = NoClient, !.tr = Append(@, Ev("establish", NoClient))]

\* connect(), lines 111-115, the try block up to its first await.
connect_try(r, c) ==
    IF c # NoClient
        THEN disconnect(r, c, "td2", establish_connection(r))
        ELSE establish_connection(r)

\* connect(), lines 105-115, from its entry to its first await; lv is the set of
\* connected sessions (client.is_connected).
connect(r, c, lv) ==
    LET r1 == [r EXCEPT !.tr = Append(@, Ev("connect", c))]
    IN  IF c # NoClient /\ c \notin lv
            THEN disconnect(r1, c, "td1", connect_try(r1, c))
            ELSE connect_try(r1, c)

\* send_cmd(), line 199: self._client.write_gatt_char(CONTROL_UUID, bytearray(bits));
\* with no handle the attribute lookup on None raises AttributeError, which
\* `except BleakError` does not catch.
write_gatt_char(r, c) ==
    IF c = NoClient
        THEN Raise(r, "AttributeError")
        ELSE [r EXCEPT !.pc = "write", !.h = c, !.tr = Append(@, WriteEv(c, bits(r.op)))]

\* send_cmd() without its reconnect: it writes to whatever handle there is.
send_cmd_noconnect(r, a, c, lv) == write_gatt_char(r, c)

\* send_cmd(), lines 195-199, from its entry to its first await.
send_cmd(r, a, c, lv) ==
    IF a # "True"
        THEN connect(r, c, lv)
        ELSE write_gatt_char(r, c)

\* A poll that reconnects whether or not the controller is available.
async_update_always(r, a, c, lv) == connect(r, c, lv)

\* async_update(), lines 188-193, from its entry to its first await.
async_update(r, a, c, lv) ==
    IF a # "True"
        THEN connect(r, c, lv)
        ELSE Return(r)

\* connect() has returned to its caller: the lifecycle hook (lines 92-95) and the
\* poll (line 193) return, send_cmd (lines 197-199) goes on to the write.
connect_returned(r, c) ==
    LET r1 == [r EXCEPT !.tr = Append(@, Ev("connect_ret", c))]
    IN  IF r.op \in {"close", "open"}
            THEN write_gatt_char(r1, c)
            ELSE Return(r1)

\* connect() catching the BleakError and calling establish_connection again.
connect_failed_retry(r, c) ==
    establish_connection([r EXCEPT !.tr = Append(@, Ev("establish_err", NoClient))])

\* connect(), lines 128-129: the BleakError of establish_connection is logged
\* and connect() returns.
connect_failed(r, c) ==
    connect_returned([r EXCEPT !.tr = Append(@, Ev("establish_err", NoClient))], c)

\* The record of a coroutine that starts now.
Begin(op) ==
    [IdleTask EXCEPT !.op = op, !.pc = "run", !.st = Here, !.prev = lastDone]

\* What is observed of the entry point that finished last.
Done(r) ==
    IF r.pc = "done" THEN [op |-> r.op, res |-> r.res, writes |-> Writes(r.tr)] ELSE lastDone

\* A new coroutine takes the lowest slot that holds none in flight; unless the
\* host lets entry points overlap, it starts when none is in flight.
CanCall(t) ==
    /\ calls < MaxCalls
    /\ ~InFlight(t)
    /\ \A u \in Tasks : u < t => InFlight(u)
    /\ overlap \/ \A u \in Tasks : ~InFlight(u)

\* Slot t goes on as r; finished coroutines leave their slots.
Step(t, r) ==
    /\ task' = [u \in Tasks |-> IF u = t THEN r ELSE Retire(task[u])]
    /\ lastDone' = Done(r)
    /\ lastCb' = NoCb
    /\ UNCHANGED <<overlap, ble_name, model, stable>>

\* ------------------------------------------------------------ entry points
\* async_added_to_hass, lines 83-95: the startup hook awaits connect().  The
\* refresh it schedules (line 91) is a later CallUpdate.
CallAdded(t) ==
    /\ CanCall(t)
    /\ calls = 0
    /\ Step(t, connect(Begin("added"), client, live))
    /\ calls' = calls + 1
    /\ UNCHANGED <<client, available, is_closed, live, pendingCb, published, lastLink>>

\* async_update, lines 188-193: the poll.
CallUpdate(t) ==
    /\ CanCall(t)
    /\ calls > 0
    /\ Step(t, async_update(Begin("update"), available, client, live))
    /\ calls' = calls + 1
    /\ UNCHANGED <<client, available, is_closed, live, pendingCb, published, lastLink>>

\* async_will_remove_from_hass, lines 97-103: the shutdown hook awaits disconnect().
CallRemove(t) ==
    /\ CanCall(t)
    /\ calls > 0
    /\ Step(t, disconnect(Begin("remove"), client, "tdr", Return(Begin("remove"))))
    /\ calls' = calls + 1
    /\ UNCHANGED <<client, available, is_closed, live, pendingCb, published, lastLink>>

\* async_close_cover, lines 205-208, up to the first await of send_cmd.
CallClose(t) ==
    /\ CanCall(t)
    /\ calls > 0
    /\ Step(t, send_cmd(Begin("close"), available, client, live))
    /\ calls' = calls + 1
    /\ UNCHANGED <<client, available, is_closed, live, pendingCb, published, lastLink>>

\* async_open_cover, lines 212-215, up to the first await of send_cmd.
CallOpen(t) ==
    /\ CanCall(t)
    /\ calls > 0
    /\ Step(t, send_cmd(Begin("open"), available, client, live))
    /\ calls' = calls + 1
    /\ UNCHANGED <<client, available, is_closed, live, pendingCb, published, lastLink>>

\* ----------------------------------------------------------- resumptions
\* The transport names a new session: the least id that no connected session
\* and no handle of the controller or of a coroutine carries.
InUse == live \cup {client} \cup {task[t].h : t \in Tasks}

NewSession ==
    CHOOSE s \in 1..(Cardinality(InUse) + 1) :
        /\ s \notin InUse
        /\ \A u \in 1..(s - 1) : u \in InUse

\* disconnect() with lines 139-140 inside the try: skipped after a BleakError.
disconnect_finish_in_try(ok, a) ==
    IF ok THEN [available |-> "False", pubs |-> 1] ELSE [available |-> a, pubs |-> 0]

\* disconnect(), lines 137-140, after client.disconnect() answered: a BleakError
\* is logged, and in both cases the flag is cleared and the state written once.
disconnect_finish(ok, a) == [available |-> "False", pubs |-> 1]

\* connect() setting the flag without writing the state.
connect_finish_nopublish(a) == [available |-> "True", pubs |-> 0]

\* connect(), lines 126-127, after establish_connection returned a client.
connect_finish(a) == [available |-> "True", pubs |-> 1]

\* The cover entry points updating the position only when send_cmd returned True.
cover_finish_gated(op, sent, c) ==
    IF sent = "True"
        THEN [is_closed |-> IF op = "close" THEN "True" ELSE "False", pubs |-> 1]
        ELSE [is_closed |-> c, pubs |-> 0]

\* A cover command that forgets the position when its write failed.
cover_finish_reset(op, sent, c) ==
    IF sent = "True"
        THEN [is_closed |-> IF op = "close" THEN "True" ELSE "False", pubs |-> 1]
        ELSE [is_closed |-> "None", pubs |-> 1]

\* async_close_cover lines 209-210 / async_open_cover lines 216-217, after send_cmd
\* returned `sent`.
cover_finish(op, sent, c) ==
    [is_closed |-> IF op = "close" THEN "True" ELSE "False", pubs |-> 1]

\* diconnected_cb acting only when the controller is available.
diconnected_cb_guarded(a) ==
    IF a = "True" THEN [available |-> "False", pubs |-> 1] ELSE [available |-> a, pubs |-> 0]

\* diconnected_cb, lines 142-145.
diconnected_cb(a) == [available |-> "False", pubs |-> 1]

\* client.disconnect() of coroutine t answers: ok, or a BleakError.  A session
\* that is torn down stops being connected, and the transport may report it to
\* the disconnected_callback (cb); after an error the session is as it was.
DisconnectRet(t, ok, cb) ==
    LET r == task[t]
        f == disconnect_finish(ok, available)
        r1 == [r EXCEPT !.pubs = @ + f.pubs,
                        !.tr = Append(@, Ev(IF ok THEN "teardown_ok" ELSE "teardown_err", r.h))]
    IN  /\ r.pc \in {"td1", "td2", "tdr"}
        /\ cb => (ok /\ r.h \in live)
        /\ (stable /\ cb) => pendingCb < MaxPending
        /\ (stable /\ ~ok /\ r.h \in live) => Cardinality(live) < MaxLive
        /\ live' = IF ok THEN live \ {r.h} ELSE live
        /\ pendingCb' = IF cb THEN pendingCb + 1 ELSE pendingCb
        /\ available' = f.available
        /\ published' = IF f.pubs > 0 THEN Written(f.available, is_closed) ELSE published
        /\ Step(t, CASE r.pc = "td1" -> connect_try(r1, client)
                     [] r.pc = "td2" -> establish_connection(r1)
                     [] r.pc = "tdr" -> Return(r1))
        /\ lastLink' = "cut"
        /\ UNCHANGED <<client, is_closed, calls>>

\* establish_connection of coroutine t answers: a connected client (ok), or a
\* BleakError after its attempts (caught at line 128).  One of its attempts may
\* have connected and dropped (drop): that session's callback is then pending.
EstablishRet(t, ok, drop) ==
    LET r == task[t]
        s == NewSession
        f == connect_finish(available)
    IN  /\ r.pc = "est"
        /\ stable => (ok /\ ~drop)
        /\ pendingCb' = IF drop THEN pendingCb + 1 ELSE pendingCb
        /\ lastLink' = IF ok THEN "ok" ELSE "failed"
        /\ IF ok
             THEN /\ live' = live \cup {s}
                  /\ client' = s
                  /\ available' = f.available
                  /\ published' = IF f.pubs > 0 THEN Written(f.available, is_closed)
                                                ELSE published
                  /\ Step(t, connect_returned(
                            [r EXCEPT !.pubs = @ + f.pubs, !.att = 0,
                                      !.tr = Append(@, Ev("established", s))], s))
             ELSE /\ Step(t, connect_failed([r EXCEPT !.att = 0], client))
                  /\ UNCHANGED <<live, client, available, published>>
        /\ UNCHANGED <<is_closed, calls>>

\* An attempt of establish_connection fails and it tries again: it makes at most
\* max_attempts attempts.
EstablishRetry(t) ==
    /\ task[t].pc = "est"
    /\ ~stable
    /\ task[t].att + 1 < max_attempts
    /\ Step(t, [task[t] EXCEPT !.att = @ + 1])
    /\ UNCHANGED <<client, available, is_closed, live, pendingCb, published, calls,
                   lastLink>>

\* write_gatt_char of coroutine t answers: written (only to a connected
\* session), or a BleakError (caught at line 201); send_cmd returns the boolean
\* and the cover entry point finishes.
WriteRet(t, ok) ==
    LET r == task[t]
        sent == IF ok THEN "True" ELSE "False"
        f == cover_finish(r.op, sent, is_closed)
    IN  /\ r.pc = "write"
        /\ ok => r.h \in live
        /\ is_closed' = f.is_closed
        /\ published' = IF f.pubs > 0 THEN Written(available, f.is_closed) ELSE published
        /\ Step(t, Return([r EXCEPT !.sent = sent, !.pubs = @ + f.pubs]))
        /\ UNCHANGED <<client, available, live, pendingCb, calls, lastLink>>

\* ------------------------------------------------------------ the transport
\* The link of a connected session drops; its callback becomes pending.
LinkDrop(s) ==
    /\ ~stable
    /\ s \in live
    /\ live' = live \ {s}
    /\ pendingCb' = pendingCb + 1
    /\ task' = [t \in Tasks |-> Retire(task[t])]
    /\ lastCb' = NoCb
    /\ UNCHANGED <<client, available, is_closed, published, calls, overlap, lastDone,
                   ble_name, model, stable, lastLink>>

\* The event loop delivers a pending disconnected_callback: diconnected_cb, which
\* does not read the client it is given.
DisconnectedCb ==
    LET f == diconnected_cb(available)
    IN  /\ pendingCb > 0
        /\ pendingCb' = pendingCb - 1
        /\ available' = f.available
        /\ published' = IF f.pubs > 0 THEN Written(f.available, is_closed) ELSE published
        /\ task' = [t \in Tasks |->
                IF InFlight(t) THEN [task[t] EXCEPT !.cbs = @ + 1] ELSE Retire(task[t])]
        /\ lastLink' = "cut"
        /\ UNCHANGED <<client, is_closed, live, calls, overlap, lastDone,
                       ble_name, model, stable>>
        /\ lastCb' = [fired |-> TRUE, pre |-> Here,
                      post |-> Snap(available', is_closed', client'), pubs |-> f.pubs]

\* ------------------------------------------------------- the specifications
Next ==
    \/ \E t \in Tasks : CallAdded(t)
    \/ \E t \in Tasks : CallUpdate(t)
    \/ \E t \in Tasks : CallRemove(t)
    \/ \E t \in Tasks : CallClose(t)
    \/ \E t \in Tasks : CallOpen(t)
    \/ \E t \in Tasks, ok \in BOOLEAN, cb \in BOOLEAN : DisconnectRet(t, ok, cb)
    \/ \E t \in Tasks, ok \in BOOLEAN, drop \in BOOLEAN : EstablishRet(t, ok, drop)
    \/ \E t \in Tasks : EstablishRetry(t)
    \/ \E t \in Tasks, ok \in BOOLEAN : WriteRet(t, ok)
    \/ \E s \in live : LinkDrop(s)
    \/ DisconnectedCb

\* The entry points are called one after the other, each when the one before it
\* has finished; the transport acts at any time.
Spec == Init /\ [][Next]_vars

\* The entry points may overlap: one may start while others are suspended.
ConcSpec == ConcInit /\ [][Next]_vars

\* ------------------------------------------------------------ recovery
\* From now on every connection attempt succeeds and no link drops.
Stabilise ==
    /\ ~stable
    /\ stable' = TRUE
    /\ task' = [t \in Tasks |-> Retire(task[t])]
    /\ lastCb' = NoCb
    /\ UNCHANGED <<client, available, is_closed, live, pendingCb, published, calls,
                   overlap, ble_name, model, lastDone, lastLink>>

\* async_update, lines 188-193, called by the host's periodic poll, which goes
\* on for as long as the entity exists.
Poll(t) ==
    /\ stable
    /\ ~InFlight(t)
    /\ \A u \in Tasks : u < t => InFlight(u)
    /\ overlap \/ \A u \in Tasks : ~InFlight(u)
    /\ Step(t, async_update(Begin("update"), available, client, live))
    /\ UNCHANGED <<client, available, is_closed, live, pendingCb, published, calls,
                   lastLink>>

LiveNext ==
    \/ Next
    \/ Stabilise
    \/ \E t \in Tasks : Poll(t)

\* Every awaited transport call is answered, the event loop delivers every
\* pending callback, and the host keeps polling.
Fairness ==
    /\ WF_vars(\E t \in Tasks, ok \in BOOLEAN, cb \in BOOLEAN : DisconnectRet(t, ok, cb))
    /\ WF_vars(\E t \in Tasks, ok \in BOOLEAN, drop \in BOOLEAN : EstablishRet(t, ok, drop))
    /\ WF_vars(\E t \in Tasks, ok \in BOOLEAN : WriteRet(t, ok))
    /\ WF_vars(DisconnectedCb)
    /\ WF_vars(\E t \in Tasks : Poll(t))

\* The entry points one after the other, under fair scheduling, with a
\* transport that may become reliable.
LiveSpec == Init /\ [][LiveNext]_vars /\ Fairness

\* ------------------------------------------------------------ construction
\* Characters of the advertised names that are built one character at a time.
NameChars == {"l", "i", "m", "o", "s", "L"}

\* __init__, lines 70-79, for a device advertising `name`: a controller with no
\* handle and unknown state whose model is model_from_name(name).
Construct(name) ==
    /\ ble_name' = name
    /\ model' = model_from_name(name)
    /\ client' = NoClient
    /\ available' = "None"
    /\ is_closed' = "None"
    /\ UNCHANGED <<live, pendingCb, published, task, calls, overlap, stable, lastCb,
                   lastDone, lastLink>>

\* A controller for the name that is one character longer.
ConstructNext(ch) ==
    /\ Len(ble_name) < MaxName
    /\ Construct(Append(ble_name, ch))

\* A controller for the device named "limoss-lift-1".
ConstructLift ==
    /\ ble_name # LiftName
    /\ Construct(LiftName)

\* A controller for the device named "other-device".
ConstructOther ==
    /\ ble_name # OtherName
    /\ Construct(OtherName)

NameInit == Controller /\ overlap = FALSE /\ ble_name = <<>> /\ model = model_from_name(<<>>)

NameNext ==
    \/ \E ch \in NameChars : ConstructNext(ch)
    \/ ConstructLift
    \/ ConstructOther

\* Controllers are constructed for one advertised name after the other.
NameSpec == NameInit /\ [][NameNext]_vars

\* ------------------------------------------------------------ the claims
Has(tr, e) == \E i \in 1..Len(tr) : tr[i].e = e

Count(tr, e) == Len(SelectSeq(tr, LAMBDA x : x.e = e))

Finished(t) == task[t].pc = "done"

Cover(t) == task[t].op \in {"close", "open"}

\* C1: the controller never has more than one connected transport session to
\* its device, whatever the transport answers to connect's teardown and
\* establishment.
C1_OneLiveSession == Cardinality(live) <= 1

\* C2: send_cmd never raises: every close/open coroutine that has finished has
\* got a boolean from send_cmd, and no exception left the call.
C2_SendCmdNeverRaises ==
    \A t \in Tasks :
        (Finished(t) /\ Cover(t)) =>
            (task[t].res = "None" /\ task[t].sent \in {"True", "False"})

\* C3: a send_cmd entered while available is not True enters connect() exactly
\* once and writes only after that connect() has returned, to the handle connect
\* left; a send_cmd entered while available is True makes one call and no other:
\* the write of its bits to the handle the controller held.
C3_ConnectBeforeWrite ==
    \A t \in Tasks :
        (Cover(t) /\ task[t].pc # "idle") =>
            LET r == task[t]
                tr == r.tr
            IN  IF r.st.available # "True"
                    THEN /\ Count(tr, "connect") = 1
                         /\ tr[1].e = "connect"
                         /\ Count(tr, "connect_ret") <= 1
                         /\ Finished(t) => Count(tr, "connect_ret") = 1
                         /\ Count(tr, "write") <= 1
                         /\ \A i \in 1..Len(tr) :
                                tr[i].e = "write" =>
                                    /\ i = Len(tr)
                                    /\ tr[i - 1].e = "connect_ret"
                                    /\ tr[i].h = tr[i - 1].h
                                    /\ tr[i].bits = bits(r.op)
                    ELSE tr = <<WriteEv(r.st.client, bits(r.op))>>

C3_Witness ==
    \E t \in Tasks :
        /\ Finished(t) /\ Cover(t)
        /\ task[t].st.available = "False"
        /\ Has(task[t].tr, "established")
        /\ task[t].sent = "True"

\* The other case of C3: a send_cmd entered while available is True has finished.
C3_WitnessAvailable ==
    \E t \in Tasks :
        Finished(t) /\ Cover(t) /\ task[t].st.available = "True" /\ task[t].sent = "True"

C5_CoverAlwaysFinishes ==
    \A t \in Tasks :
        (Finished(t) /\ Cover(t)) =>
            /\ is_closed = IF task[t].op = "close" THEN "True" ELSE "False"
            /\ task[t].pubs >= 1
            /\ published = Written(available, is_closed)

\* C6: when open() runs right after a close() that returned, it ends with
\* is_closed False, and the two calls made exactly two writes to the control
\* characteristic: DD A2 12 A0 44 6A 3D BF C7 A2, then DD 29 CC EA 3F EE 31 9C 54 0A.
C6_CloseThenOpen ==
    \A t \in Tasks :
        ( /\ Finished(t) /\ task[t].op = "open" /\ task[t].res = "None"
          /\ task[t].prev.op = "close" /\ task[t].prev.res = "None" ) =>
            /\ is_closed = "False"
            /\ task[t].prev.writes \o Writes(task[t].tr) =
                    << <<221, 162, 18, 160, 68, 106, 61, 191, 199, 162>>,
                       <<221, 41, 204, 234, 63, 238, 49, 156, 84, 10>> >>

C6_Witness ==
    \E t \in Tasks :
        /\ Finished(t) /\ task[t].op = "open" /\ task[t].res = "None"
        /\ task[t].prev.op = "close" /\ task[t].prev.res = "None"
        /\ task[t].sent = "True"

\* C7: every run of the disconnect callback leaves available False, writes the
\* state exactly once, and changes neither the handle nor is_closed, whatever
\* the state it runs in.
C7_CallbackEffect ==
    lastCb.fired =>
        /\ lastCb.post.available = "False"
        /\ lastCb.pubs = 1
        /\ published = Written("False", is_closed)
        /\ lastCb.post.client = lastCb.pre.client
        /\ lastCb.post.is_closed = lastCb.pre.is_closed

\* The callback ran with available already False, after an explicit disconnect().
C7_Witness ==
    /\ lastCb.fired
    /\ lastCb.pre.available = "False"
    /\ lastDone.op = "remove"

\* The other cases of C7: the callback ran while available was True, and before
\* any handle was set.
C7_WitnessAvailable == lastCb.fired /\ lastCb.pre.available = "True"

C7_WitnessNoHandle ==
    lastCb.fired /\ lastCb.pre.available = "None" /\ lastCb.pre.client = NoClient

\* C8: disconnect() with no handle, run from the shutdown hook, returns without
\* raising, calls nothing on the transport, writes no state, and leaves
\* available, is_closed and the handle as they were.
C8_DisconnectNoHandle ==
    \A t \in Tasks :
        (Finished(t) /\ task[t].op = "remove" /\ task[t].st.client = NoClient) =>
            /\ task[t].res = "None"
            /\ task[t].tr = <<>>
            /\ task[t].pubs = 0
            /\ Here = task[t].st

C8_Witness ==
    \E t \in Tasks :
        Finished(t) /\ task[t].op = "remove" /\ task[t].st.client = NoClient

\* C9: disconnect() with a handle, run from the shutdown hook, ends with
\* available False and one state write, after a teardown that succeeded and
\* after one that raised BleakError, and nothing is raised to the caller.
C9_DisconnectWithHandle ==
    \A t \in Tasks :
        (Finished(t) /\ task[t].op = "remove" /\ task[t].st.client # NoClient) =>
            /\ task[t].res = "None"
            /\ available = "False"
            /\ task[t].pubs = 1
            /\ published = Written("False", is_closed)
            /\ Has(task[t].tr, "teardown_ok") \/ Has(task[t].tr, "teardown_err")

C9_Witness ==
    \E t \in Tasks :
        /\ Finished(t) /\ task[t].op = "remove"
        /\ Has(task[t].tr, "teardown_err")
        /\ task[t].st.available = "True"

\* The other case of C9: the teardown succeeded.
C9_WitnessTornDown ==
    \E t \in Tasks : Finished(t) /\ task[t].op = "remove" /\ Has(task[t].tr, "teardown_ok")

\* C10: a connect() whose establish_connection failed, run from the startup hook
\* or from the poll, ends with available False (not True, not unset), and no
\* exception leaves the hook or the poll.
C10_FailedConnectUnavailable ==
    \A t \in Tasks :
        ( /\ Finished(t) /\ task[t].op \in {"added", "update"}
          /\ Has(task[t].tr, "establish_err") ) =>
            (task[t].res = "None" /\ available = "False")

\* C11: whenever available is True, the connection attempt that finished last
\* succeeded, and no disconnect callback and no disconnect() has run since it
\* finished; also when entry points overlap.
C11_AvailableMeansConnected == available = "True" => lastLink = "ok"

\* C12: is_closed stays unknown until the first open or close command that was
\* issued successfully: the step that moves is_closed away from None is the
\* return of a cover command whose write succeeded; a command whose write or
\* connect failed does not move it.
C12_UnknownUntilSuccess ==
    [][(is_closed = "None" /\ is_closed' # "None")
        => \E t \in Tasks : /\ task'[t].pc = "done"
                            /\ task'[t].op \in {"close", "open"}
                            /\ task'[t].sent = "True"]_vars

\* The failing case of C12 at the return of the command: a close or open that
\* started with is_closed unknown and whose write failed leaves it unknown.
C12_FailedCommandKeepsUnknown ==
    \A t \in Tasks :
        (Finished(t) /\ Cover(t) /\ task[t].sent = "False"
            /\ task[t].st.is_closed = "None")
        => is_closed = "None"

\* C13: connection activity never changes is_closed: every step that changes
\* it is the return of the write of an open or close command (connect,
\* disconnect, the disconnect callback and the poll refresh leave it alone),
\* and once it has a boolean value it never returns to unknown.
C13_OnlyCoverAssigns ==
    [][/\ (is_closed' # is_closed)
            => \E t \in Tasks : /\ task[t].pc = "write"
                                /\ Cover(t)
                                /\ task'[t].pc = "done"
                                /\ is_closed' = IF task[t].op = "close" THEN "True"
                                                                        ELSE "False"
       /\ (is_closed # "None") => (is_closed' # "None")]_vars

\* C13's case: a poll refresh that reconnected while the position was known
\* returned, and the position is what it was.
C13_Witness ==
    \E t \in Tasks :
        /\ Finished(t)
        /\ task[t].op = "update"
        /\ Has(task[t].tr, "established")
        /\ task[t].st.is_closed = "True"
        /\ is_closed = "True"

\* C13's case for the callback and for a failed command: a disconnect callback
\* ran while the position was known; a command whose write failed returned
\* with a boolean position.
C13_WitnessCallback == lastCb.fired /\ lastCb.pre.is_closed = "False" /\ is_closed = "False"

C13_WitnessFailedWrite ==
    \E t \in Tasks :
        /\ Finished(t) /\ Cover(t) /\ task[t].sent = "False"
        /\ task[t].st.is_closed # "None"

\* C14: the controller's model is the known lift model exactly when the
\* advertised name starts with "limoss" (compared character by character, in
\* lower case), and "Unknown" otherwise; "limoss-lift-1" gives the known lift
\* model and "other-device" gives "Unknown".
C14_ModelFromName ==
    LET limoss == /\ Len(ble_name) >= 6
                  /\ ble_name[1] = "l" /\ ble_name[2] = "i" /\ ble_name[3] = "m"
                  /\ ble_name[4] = "o" /\ ble_name[5] = "s" /\ ble_name[6] = "s"
    IN  /\ limoss => (model = "Breagle" /\ model # "Unknown")
        /\ ~limoss => model = "Unknown"
        /\ ble_name = LiftName => model = "Breagle"
        /\ ble_name = OtherName => model = "Unknown"

\* C14's case: the controller for "limoss-lift-1" has been constructed.
C14_Witness == ble_name = LiftName /\ model = MODEL_TVLIFT

\* C14's other cases: "other-device"; a built name that is exactly the prefix;
\* a built name that misses the prefix by its last character or by its case.
C14_WitnessOther == ble_name = OtherName /\ model = MODEL_UNKNOWN

C14_WitnessPrefix == ble_name = LIMOSS /\ model = MODEL_TVLIFT

C14_WitnessNearMiss ==
    /\ ble_name \in {<<"l","i","m","o","s">>, <<"l","i","m","o","s","l">>,
                     <<"L","i","m","o","s","s">>}
    /\ model = MODEL_UNKNOWN

\* C15: no two entry points of the controller execute interleaved: at most one
\* of them is suspended at transport I/O at any time, so the teardown,
\* establish and write steps of two entry points never interleave.
C15_NoInterleaving == Cardinality({t \in Tasks : InFlight(t)}) <= 1

\* C15's consequences: a teardown never races an establishment, and while every
\* teardown succeeds and no link drops, overlapping connect() runs leave at
\* most one connected session, the one the handle refers to.
C15_NoTeardownDuringEstablish ==
    \A t, u \in Tasks :
        ~(task[t].pc \in {"td1", "td2", "tdr"} /\ task[u].pc = "est")

C15_NoOverwrittenSession ==
    (/\ pendingCb = 0
     /\ \A t \in Tasks : ~Has(task[t].tr, "teardown_err")
     /\ lastDone.op \in {"-", "added", "update"})
    => live \subseteq {client}

\* C16: a disconnect callback never leaves the availability flag and the
\* handle inconsistent: once the callback has run and no connect() or
\* disconnect() is in flight and no callback is pending, available is True
\* exactly when the current handle is a connected session.
C16_CallbackKeepsConsistent ==
    (/\ lastCb.fired
     /\ pendingCb = 0
     /\ \A t \in Tasks : ~InFlight(t))
    => (available = "True" <=> client \in live)

\* C16 for the late callback alone: no teardown failed and the session of the
\* current handle never dropped, yet a callback has made it unavailable.
C16_LateCallbackHarmless ==
    (/\ lastCb.fired
     /\ pendingCb = 0
     /\ \A t \in Tasks : ~InFlight(t)
     /\ lastCb.pre.available = "True")
    => client \notin live

\* What a coroutine can still do before it returns: a bound on its remaining
\* transport steps (teardown of a dead handle, teardown in the try block,
\* the attempts of establish_connection, the write).
Remaining(r) ==
    CASE r.pc = "td1" -> max_attempts + 3
      [] r.pc = "td2" -> max_attempts + 2
      [] r.pc = "est" -> max_attempts + 1 - r.att
      [] r.pc \in {"write", "tdr"} -> 1
      [] OTHER -> 0

\* C17: every connect() call terminates after at most 4 transport connection
\* attempts: a coroutine enters connect() once and establish_connection once,
\* the attempt under way is never later than the 4th, and every step of a
\* coroutine in flight brings it strictly closer to its return.
C17_ConnectBounded ==
    /\ [](\A t \in Tasks :
            /\ Count(task[t].tr, "connect") <= 1
            /\ Count(task[t].tr, "establish") <= 1
            /\ Count(task[t].tr, "establish_err") <= 1
            /\ Count(task[t].tr, "teardown") <= 2
            /\ task[t].att + 1 <= 4
            /\ Remaining(task[t]) >= 0)
    /\ [][\A t \in Tasks :
            (InFlight(t) /\ (task'[t].tr # task[t].tr \/ task'[t].att # task[t].att))
            => Remaining(task'[t]) < Remaining(task[t])]_vars

\* C17's case: the 4th attempt of an establish_connection is under way.
C17_Witness == \E t \in Tasks : task[t].pc = "est" /\ task[t].att + 1 = 4

\* C17's case at the return: a connect() whose establish_connection failed has
\* returned, after two teardowns.
C17_WitnessReturned ==
    \E t \in Tasks :
        /\ Finished(t)
        /\ Has(task[t].tr, "establish_err")
        /\ Has(task[t].tr, "connect_ret")
        /\ Count(task[t].tr, "teardown") = 2

\* The events of one connect() call.
ConnectEvents ==
    {"connect", "teardown", "teardown_ok", "teardown_err", "establish", "established",
     "establish_err", "connect_ret"}

\* C18: the poll refresh does work only when the controller is unavailable.
\* Started with available True it returns at once: no transport operation, no
\* state write, available, is_closed and the handle as they were.  Started
\* otherwise it runs exactly one connect(), from its entry to its return, and
\* nothing else: no write, is_closed as it was.  It never raises.
C18_PollOnlyReconnects ==
    \A t \in Tasks :
        task[t].op = "update" =>
            /\ task[t].st.available = "True" => ~InFlight(t)
            /\ \A i \in 1..Len(task[t].tr) : task[t].tr[i].e \in ConnectEvents
            /\ Finished(t) =>
                /\ task[t].res = "None"
                /\ is_closed = task[t].st.is_closed
                /\ IF task[t].st.available = "True"
                     THEN /\ task[t].tr = <<>>
                          /\ task[t].pubs = 0
                          /\ Here = task[t].st
                     ELSE /\ Count(task[t].tr, "connect") = 1
                          /\ Count(task[t].tr, "connect_ret") = 1
                          /\ Count(task[t].tr, "establish") = 1
                          /\ task[t].tr[1].e = "connect"
                          /\ task[t].tr[Len(task[t].tr)].e = "connect_ret"

\* C18's case: a poll of an available controller has returned.
C18_Witness ==
    \E t \in Tasks :
        /\ Finished(t) /\ task[t].op = "update"
        /\ task[t].st.available = "True"
        /\ client \in live

\* C18's other case: a poll of an unavailable controller has reconnected.
C18_WitnessReconnect ==
    \E t \in Tasks :
        /\ Finished(t) /\ task[t].op = "update"
        /\ task[t].st.available = "False"
        /\ Has(task[t].tr, "established")
        /\ available = "True"

\* C19: every state transition is published.  What was published last is the
\* controller's current {available, is_closed} in every state, hence at the end
\* of every operation; nothing has been published only while both still have
\* their initial value; an operation that changed one of them has written the
\* state, and so has every disconnect callback.
C19_TransitionsPublished ==
    /\ published.available # "-" => published = Written(available, is_closed)
    /\ published.available = "-" => (available = "None" /\ is_closed = "None")
    /\ \A t \in Tasks :
        (Finished(t) /\ (available # task[t].st.available
                            \/ is_closed # task[t].st.is_closed))
        => /\ task[t].pubs + task[t].cbs >= 1
           /\ published = Written(available, is_closed)
    /\ lastCb.fired => (lastCb.pubs = 1 /\ published = Written(available, is_closed))

\* C19's case: a close command that reconnected has returned; connect() and the
\* command each changed the state and wrote it.
C19_Witness ==
    \E t \in Tasks :
        /\ Finished(t) /\ task[t].op = "close"
        /\ Has(task[t].tr, "established")
        /\ task[t].st.is_closed # "True"
        /\ task[t].pubs >= 2
        /\ published = Written(available, "True")

\* C19's case for disconnect(): an available controller was shut down.
C19_WitnessDisconnect ==
    \E t \in Tasks :
        /\ Finished(t) /\ task[t].op = "remove"
        /\ task[t].st.available = "True"
        /\ published = Written("False", is_closed)

\* C20: recovery is eventually reached.  Once every connection attempt succeeds
\* and no link drops any more, an unavailable controller becomes available
\* under fair polling, and callbacks produced by its own teardown of earlier
\* handles do not drive it back to unavailable for ever: from some point on it
\* stays available.
C20_RecoveryReached == (stable /\ available # "True") ~> [](available = "True")

\* The first half of C20 alone: an unavailable controller becomes available at
\* some later time.
C20_EventuallyAvailable == (stable /\ available # "True") ~> (available = "True")

\* C20's case: after the transport became reliable, a poll of an unavailable
\* controller has reconnected.
C20_PollRecovered ==
    \E t \in Tasks :
        /\ stable
        /\ Finished(t) /\ task[t].op = "update"
        /\ task[t].st.available = "False"
        /\ available = "True"

====
